---- MODULE Spec2Model ----
(***************************************************************************)
(* Condorcet election (package condorcet): the pairwise sum matrix, ballot  *)
(* validation and tallying (Election.Vote), the winner search              *)
(* (Election.Winner, Result.Winner) and the snapshot (Election.Result).     *)
(*                                                                         *)
(* Go slices are references: the model keeps a heap `mem` of arrays and an  *)
(* Election's field m is an address into it (NilSlice: the nil slice), so   *)
(* that sharing between a Result and the live Election is expressible.      *)
(* Arrays are 1-based sequences; the code's 0-based offset k is mem[a][k+1].*)
(* The counters are Go uint; the bounds keep them far from wrapping.        *)
(*                                                                         *)
(* Election.Winner is the method of the revision of election.go kept as     *)
(* src/unnamed/part_000; Election.Result and Result are those of            *)
(* src/election.go and src/unnamed/part_001.                                *)
(***************************************************************************)
EXTENDS Integers, Sequences, FiniteSets, Bags, TLC

\* ------------------------------------------------------------- bounds
\* largest candidate count passed to New
MaxCand == 3
\* largest number of accepted ballots
MaxVotes == 2
\* largest number of snapshots taken with Result()
MaxResults == 1

\* ------------------------------------------------------------- heap
NilSlice == 0

\* make([]uint, len): a fresh zeroed array
make(len) == [k \in 1..len |-> 0]

\* len(s) of the slice at address a
SliceLen(heap, a) == IF a = NilSlice THEN 0 ELSE Len(heap[a])

\* s[k] would not panic
InRange(heap, a, k) == k >= 0 /\ k < SliceLen(heap, a)

\* s[k]
At(heap, a, k) == heap[a][k + 1]

\* ------------------------------------------------------------- Election
\* the zero value Election{}: n = 0, m = nil
\* (nil |-> TRUE models a nil *Election)
ZeroElection == [nil |-> FALSE, n |-> 0, m |-> NilSlice]

NilElection == [nil |-> TRUE, n |-> 0, m |-> NilSlice]

\* New with a seeded fault: the candidate count is stored as given, not n - 2
NewStoresCount(n) ==
    IF n < 2
    THEN [e |-> NilElection, err |-> TRUE]
    ELSE [e |-> [nil |-> FALSE, n |-> n, m |-> NilSlice], err |-> FALSE]

\* New(n): (nil, error) when n < 2, else &Election{n: n - 2}
New(n) ==
    IF n < 2
    THEN [e |-> NilElection, err |-> TRUE]
    ELSE [e |-> [nil |-> FALSE, n |-> n - 2, m |-> NilSlice], err |-> FALSE]

\* the number of candidates
num(el) == el.n + 2

initialized(el) == el.m # NilSlice

\* e.m = make([]uint, n*n): the array is allocated at a fresh address
init(el, heap) ==
    [e   |-> [el EXCEPT !.m = Len(heap) + 1],
     mem |-> Append(heap, make(num(el) * num(el)))]

\* offset of the pair (i, j) in the row-major sum matrix
index(el, i, j) == num(el) * i + j

\* candidates[c] after the first loop of Vote
CountOf(ballot, c) == Cardinality({k \in 1..Len(ballot) : ballot[k] = c})

\* the validation with a seeded fault: the per-candidate count is not checked
ValidBallotNoCount(el, ballot) ==
    /\ Len(ballot) = num(el)
    /\ \A k \in 1..Len(ballot) : ~(ballot[k] < 0 \/ ballot[k] >= num(el))

\* the checks of Vote, in the code's order: the length, each entry's range,
\* then every candidate counted exactly once
ValidBallot(el, ballot) ==
    /\ Len(ballot) = num(el)
    /\ \A k \in 1..Len(ballot) : ~(ballot[k] < 0 \/ ballot[k] >= num(el))
    /\ \A c \in 0..(num(el) - 1) : CountOf(ballot, c) = 1

\* e.m[k]++
Incr(arr, k) == [arr EXCEPT ![k + 1] = @ + 1]

\* the fill loops with a seeded fault: the pair is recorded the wrong way round
RECURSIVE fillReversed(_, _, _, _, _)
fillReversed(arr, el, ballot, i, j) ==
    IF i >= Len(ballot) THEN arr
    ELSE IF j >= Len(ballot) THEN fillReversed(arr, el, ballot, i + 1, i + 2)
    ELSE fillReversed(Incr(arr, index(el, ballot[j + 1], ballot[i + 1])),
                      el, ballot, i, j + 1)

\* the fill loops with a seeded fault: the inner loop stops one position early
RECURSIVE fillShort(_, _, _, _, _)
fillShort(arr, el, ballot, i, j) ==
    IF i >= Len(ballot) THEN arr
    ELSE IF j >= Len(ballot) - 1 THEN fillShort(arr, el, ballot, i + 1, i + 2)
    ELSE fillShort(Incr(arr, index(el, ballot[i + 1], ballot[j + 1])),
                   el, ballot, i, j + 1)

\* the two fill loops of Vote, from positions (i, j), 0-based:
\* for i := range ballot { for j := i + 1; j < len(ballot); j++ { ...++ } }
RECURSIVE fill(_, _, _, _, _)
fill(arr, el, ballot, i, j) ==
    IF i >= Len(ballot) THEN arr
    ELSE IF j >= Len(ballot) THEN fill(arr, el, ballot, i + 1, i + 2)
    ELSE fill(Incr(arr, index(el, ballot[i + 1], ballot[j + 1])),
              el, ballot, i, j + 1)

\* Vote with a seeded fault: the matrix is allocated anew on every accepted ballot
VoteAlwaysInit(el, heap, ballot) ==
    IF ~ValidBallot(el, ballot)
    THEN [e |-> el, mem |-> heap, ret |-> FALSE]
    ELSE LET s == init(el, heap)
         IN  [e   |-> s.e,
              mem |-> [s.mem EXCEPT ![s.e.m] = fill(@, s.e, ballot, 0, 1)],
              ret |-> TRUE]

\* Vote(ballot...): the Election and the heap afterwards, and the value returned
Vote(el, heap, ballot) ==
    IF ~ValidBallot(el, ballot)
    THEN [e |-> el, mem |-> heap, ret |-> FALSE]
    ELSE LET s == IF initialized(el) THEN [e |-> el, mem |-> heap]
                  ELSE init(el, heap)
         IN  [e   |-> s.e,
              mem |-> [s.mem EXCEPT ![s.e.m] = fill(@, s.e, ballot, 0, 1)],
              ret |-> TRUE]

\* ------------------------------------------------------------- Election.Winner
\* an access e.m[index(a, b)] that would panic (index out of range)
Faults(el, heap, a, b) == ~InRange(heap, el.m, index(el, a, b))

\* the first loop of Winner from challenger i: the candidate it ends on
RECURSIVE sweep(_, _, _, _)
sweep(el, heap, w, i) ==
    IF i >= num(el) THEN [w |-> w, fault |-> FALSE]
    ELSE IF Faults(el, heap, w, i) \/ Faults(el, heap, i, w)
         THEN [w |-> w, fault |-> TRUE]
    ELSE sweep(el, heap,
               IF At(heap, el.m, index(el, w, i)) < At(heap, el.m, index(el, i, w))
               THEN i ELSE w,
               i + 1)

\* the second loop of Winner from i: does w beat every other candidate?
RECURSIVE confirm(_, _, _, _)
confirm(el, heap, w, i) ==
    IF i >= num(el) THEN [exist |-> TRUE, fault |-> FALSE]
    ELSE IF w = i THEN confirm(el, heap, w, i + 1)
    ELSE IF Faults(el, heap, w, i) \/ Faults(el, heap, i, w)
         THEN [exist |-> FALSE, fault |-> TRUE]
    ELSE IF At(heap, el.m, index(el, w, i)) <= At(heap, el.m, index(el, i, w))
         THEN [exist |-> FALSE, fault |-> FALSE]
    ELSE confirm(el, heap, w, i + 1)

\* Election.Winner: (w, exist), or a run-time panic (fault). The bare return
\* of the second loop returns the named result w as the sweep left it.
Winner(el, heap) ==
    LET s == sweep(el, heap, 0, 1) IN
    IF s.fault THEN [w |-> s.w, exist |-> FALSE, fault |-> TRUE]
    ELSE LET c == confirm(el, heap, s.w, 0)
         IN  [w |-> s.w, exist |-> c.exist, fault |-> c.fault]

\* ------------------------------------------------------------- Result
\* Result with a seeded fault: the copy shares the live Election's array
ResultAliased(el, heap) ==
    LET s == IF initialized(el) THEN [e |-> el, mem |-> heap] ELSE init(el, heap)
    IN  [e   |-> s.e,
         mem |-> s.mem,
         cp  |-> [nil |-> FALSE, n |-> s.e.n, m |-> s.e.m]]

\* Election.Result: the live Election is initialized if it was not, then
\* cp.n = e.n; cp.m = make([]uint, len(e.m)); copy(cp.m, e.m)
Result(el, heap) ==
    LET s    == IF initialized(el) THEN [e |-> el, mem |-> heap] ELSE init(el, heap)
        src  == s.mem[s.e.m]
        made == make(Len(src))
    IN  [e   |-> s.e,
         mem |-> Append(s.mem, [k \in 1..Len(made) |-> src[k]]),
         cp  |-> [nil |-> FALSE, n |-> s.e.n, m |-> Len(s.mem) + 1]]

\* the first loop of Result.Winner, on r.e
RECURSIVE rsweep(_, _, _, _)
rsweep(el, heap, w, i) ==
    IF i >= num(el) THEN [w |-> w, fault |-> FALSE]
    ELSE IF Faults(el, heap, w, i) \/ Faults(el, heap, i, w)
         THEN [w |-> w, fault |-> TRUE]
    ELSE rsweep(el, heap,
                IF At(heap, el.m, index(el, w, i)) < At(heap, el.m, index(el, i, w))
                THEN i ELSE w,
                i + 1)

\* the second loop of Result.Winner, on r.e
RECURSIVE rconfirm(_, _, _, _)
rconfirm(el, heap, w, i) ==
    IF i >= num(el) THEN [exist |-> TRUE, fault |-> FALSE]
    ELSE IF w = i THEN rconfirm(el, heap, w, i + 1)
    ELSE IF Faults(el, heap, w, i) \/ Faults(el, heap, i, w)
         THEN [exist |-> FALSE, fault |-> TRUE]
    ELSE IF At(heap, el.m, index(el, w, i)) <= At(heap, el.m, index(el, i, w))
         THEN [exist |-> FALSE, fault |-> FALSE]
    ELSE rconfirm(el, heap, w, i + 1)

\* Result.Winner, r a Result record [e: the copy, voters: its count]
ResultWinner(r, heap) ==
    LET s == rsweep(r.e, heap, 0, 1) IN
    IF s.fault THEN [w |-> s.w, exist |-> FALSE, fault |-> TRUE]
    ELSE LET c == rconfirm(r.e, heap, s.w, 0)
         IN  [w |-> s.w, exist |-> c.exist, fault |-> c.fault]

\* ------------------------------------------------------------- voter count
\* Election.NumVoters is called by Result.NumVoters but its body and the
\* counter it reads are not in the sources at hand: the counter follows the
\* design document (incremented on each accepted ballot, copied by Result).

\* the counter with a seeded fault: every call of Vote counts
CountEveryBallot(v, accepted) == v + 1

\* the accepted-ballot counter after a call of Vote
VotersAfterVote(v, accepted) == IF accepted THEN v + 1 ELSE v

\* the count a snapshot keeps
SnapshotVoters(v) == v

\* Election.NumVoters
NumVoters(v) == v

\* Result.NumVoters: r.e.NumVoters()
ResultNumVoters(r) == NumVoters(r.voters)

\* ------------------------------------------------------------- state
VARIABLES
    e,         \* the live Election (nil |-> TRUE: New returned no Election)
    mem,       \* the heap: the arrays that slices refer to, by address
    voters,    \* the accepted-ballot counter of the live Election
    results,   \* the Results handed out so far, in order
    err,       \* New returned an error
    pc,        \* "start", "live", "failed" (New failed), "panicked"
    last,      \* the last call and what it returned
    origin,    \* "New" or "zero": how the Election came to be (recorded)
    arg,       \* the n given to New (recorded)
    call,      \* the last call when it is a Vote: its ballot and the state
               \* it was made in (recorded)
    accepted,  \* the number of calls of Vote that returned true (recorded)
    cast,      \* the bag of the ballots Vote accepted (recorded)
    taken,     \* per Result: what it answered when it was taken (recorded)
    twin       \* a second program, a zero-value Election, fed the same calls

vars == <<e, mem, voters, results, err, pc, last, origin, arg, call, accepted, cast,
          taken, twin>>

\* the call record of a program that has made no call yet
NoCall == [op |-> "none", ret |-> FALSE, w |-> 0, exist |-> FALSE,
           fault |-> FALSE, count |-> 0, k |-> 0]

\* the program's own state as one record
Prog == [e |-> e, mem |-> mem, voters |-> voters, results |-> results,
         err |-> err, pc |-> pc, last |-> last]

FreshProg == [e |-> NilElection, mem |-> <<>>, voters |-> 0, results |-> <<>>,
              err |-> FALSE, pc |-> "start", last |-> NoCall]

\* ------------------------------------------------------------- the calls
\* e, err := New(n)
StepNew(p, n) ==
    LET r == New(n) IN
    [p EXCEPT !.e = r.e, !.err = r.err,
              !.pc = IF r.err THEN "failed" ELSE "live",
              !.last = [NoCall EXCEPT !.op = "New", !.ret = ~r.err]]

\* e := &Election{}
StepZero(p) ==
    [p EXCEPT !.e = ZeroElection, !.pc = "live",
              !.last = [NoCall EXCEPT !.op = "Zero", !.ret = TRUE]]

\* e.Vote(ballot...)
StepVote(p, ballot) ==
    LET r == Vote(p.e, p.mem, ballot) IN
    [p EXCEPT !.e = r.e, !.mem = r.mem,
              !.voters = VotersAfterVote(p.voters, r.ret),
              !.last = [NoCall EXCEPT !.op = "Vote", !.ret = r.ret]]

\* e.Winner(): a panic ends the program
StepWinner(p) ==
    LET r == Winner(p.e, p.mem) IN
    [p EXCEPT !.pc = IF r.fault THEN "panicked" ELSE p.pc,
              !.last = IF r.fault
                       THEN [NoCall EXCEPT !.op = "Winner", !.fault = TRUE]
                       ELSE [NoCall EXCEPT !.op = "Winner", !.w = r.w,
                                           !.exist = r.exist]]

\* e.NumVoters()
StepNumVoters(p) ==
    [p EXCEPT !.last = [NoCall EXCEPT !.op = "NumVoters",
                                      !.count = NumVoters(p.voters)]]

\* r := e.Result()
StepResult(p) ==
    LET r == Result(p.e, p.mem) IN
    [p EXCEPT !.e = r.e, !.mem = r.mem,
              !.results = Append(p.results,
                                 [e |-> r.cp, voters |-> SnapshotVoters(p.voters)]),
              !.last = [NoCall EXCEPT !.op = "Result", !.k = Len(p.results) + 1]]

\* results[k].Winner()
StepResultWinner(p, k) ==
    LET r == ResultWinner(p.results[k], p.mem) IN
    [p EXCEPT !.pc = IF r.fault THEN "panicked" ELSE p.pc,
              !.last = IF r.fault
                       THEN [NoCall EXCEPT !.op = "Result.Winner", !.k = k,
                                           !.fault = TRUE]
                       ELSE [NoCall EXCEPT !.op = "Result.Winner", !.k = k,
                                           !.w = r.w, !.exist = r.exist]]

\* results[k].NumVoters()
StepResultNumVoters(p, k) ==
    [p EXCEPT !.last = [NoCall EXCEPT !.op = "Result.NumVoters", !.k = k,
                                      !.count = ResultNumVoters(p.results[k])]]

\* ------------------------------------------------------------- inputs
\* the ballot 0, 1, .., n-1
Identity(n) == [k \in 1..n |-> k - 1]

\* every total order over the n candidates
TotalOrders(n) ==
    {b \in [1..n -> 0..(n - 1)] : \A k, l \in 1..n : k # l => b[k] # b[l]}

\* the malformed ballots: no entry at all, and the identity ballot with its last
\* entry dropped, with one more entry, or with one entry replaced, the entry
\* drawn from -1 .. n
Malformed(n) ==
    {<<>>, SubSeq(Identity(n), 1, n - 1)}
    \cup {Append(Identity(n), x) : x \in (0 - 1)..n}
    \cup {b \in {[Identity(n) EXCEPT ![k] = x] : k \in 1..n, x \in (0 - 1)..n} :
            b # Identity(n)}

\* the ballots a caller may hand to an election of n candidates
BallotInputs(n) == TotalOrders(n) \cup Malformed(n)

\* how a ballot is formed, for n candidates
BallotKind(ballot, n) ==
    IF Len(ballot) # n THEN "length"
    ELSE IF \E k \in 1..Len(ballot) : ballot[k] \notin 0..(n - 1) THEN "range"
    ELSE IF \E k, l \in 1..Len(ballot) : k # l /\ ballot[k] = ballot[l]
         THEN "duplicate"
    ELSE "permutation"

\* the array of the live Election (empty while the matrix is not allocated)
LiveArray(el, heap) == IF el.m = NilSlice THEN <<>> ELSE heap[el.m]

\* the record of a call that is not a Vote
NoVote == [kind |-> "none", ballot |-> <<>>, e |-> NilElection, arr |-> <<>>,
           voters |-> 0]

\* the record of a call Vote(ballot) made in the current state; a malformed
\* ballot is recorded by its kind only
VoteCall(ballot) ==
    [kind   |-> BallotKind(ballot, num(e)),
     ballot |-> IF ballot \in TotalOrders(num(e)) THEN ballot ELSE <<>>,
     e      |-> e,
     arr    |-> LiveArray(e, mem),
     voters |-> voters]

\* ------------------------------------------------------------- actions
Install(q) ==
    /\ e' = q.e
    /\ mem' = q.mem
    /\ voters' = q.voters
    /\ results' = q.results
    /\ err' = q.err
    /\ pc' = q.pc
    /\ last' = q.last

Init ==
    /\ e = FreshProg.e
    /\ mem = FreshProg.mem
    /\ voters = FreshProg.voters
    /\ results = FreshProg.results
    /\ err = FreshProg.err
    /\ pc = FreshProg.pc
    /\ last = FreshProg.last
    /\ origin = "none"
    /\ arg = 0
    /\ call = NoVote
    /\ accepted = 0
    /\ cast = EmptyBag
    /\ taken = <<>>
    /\ twin = FreshProg

CallNew(n) ==
    /\ pc = "start"
    /\ \E q \in {StepNew(Prog, n)} : Install(q)
    /\ origin' = "New"
    /\ arg' = n
    /\ UNCHANGED <<call, accepted, cast, taken>>

CallZero ==
    /\ pc = "start"
    /\ \E q \in {StepZero(Prog)} : Install(q)
    /\ origin' = "zero"
    /\ UNCHANGED <<arg, call, accepted, cast, taken>>

\* the program may call Vote: it holds an Election, and the model's cap on
\* accepted ballots is not reached
CanVote == pc = "live" /\ accepted < MaxVotes

CallVote(ballot) ==
    /\ CanVote
    /\ \E q \in {StepVote(Prog, ballot)} :
       /\ Install(q)
       /\ call' = VoteCall(ballot)
       /\ accepted' = IF q.last.ret THEN accepted + 1 ELSE accepted
       /\ cast' = IF q.last.ret THEN cast (+) SetToBag({ballot}) ELSE cast
    /\ UNCHANGED <<origin, arg, taken>>

CallWinner ==
    /\ pc = "live"
    /\ \E q \in {StepWinner(Prog)} : Install(q)
    /\ call' = NoVote
    /\ UNCHANGED <<origin, arg, accepted, cast, taken>>

CallNumVoters ==
    /\ pc = "live"
    /\ \E q \in {StepNumVoters(Prog)} : Install(q)
    /\ call' = NoVote
    /\ UNCHANGED <<origin, arg, accepted, cast, taken>>

CallResult ==
    /\ pc = "live"
    /\ Len(results) < MaxResults
    /\ \E q \in {StepResult(Prog)} :
       /\ Install(q)
       /\ taken' = Append(taken,
                          [winner |-> ResultWinner(q.results[Len(q.results)], q.mem),
                           count  |-> accepted])
    /\ call' = NoVote
    /\ UNCHANGED <<origin, arg, accepted, cast>>

CallResultWinner(k) ==
    /\ pc = "live"
    /\ k \in 1..Len(results)
    /\ \E q \in {StepResultWinner(Prog, k)} : Install(q)
    /\ call' = NoVote
    /\ UNCHANGED <<origin, arg, accepted, cast, taken>>

CallResultNumVoters(k) ==
    /\ pc = "live"
    /\ k \in 1..Len(results)
    /\ \E q \in {StepResultNumVoters(Prog, k)} : Install(q)
    /\ call' = NoVote
    /\ UNCHANGED <<origin, arg, accepted, cast, taken>>

\* one program: an Election from New(n) or a zero value, then any calls
DoNew == \E n \in (0 - 1)..MaxCand : CallNew(n) /\ UNCHANGED twin
DoZero == CallZero /\ UNCHANGED twin
DoVote ==
    /\ CanVote
    /\ \E ballot \in BallotInputs(num(e)) : CallVote(ballot) /\ UNCHANGED twin
DoWinner == CallWinner /\ UNCHANGED twin
DoNumVoters == CallNumVoters /\ UNCHANGED twin
DoResult == CallResult /\ UNCHANGED twin
DoResultWinner == \E k \in 1..Len(results) : CallResultWinner(k) /\ UNCHANGED twin
DoResultNumVoters == \E k \in 1..Len(results) : CallResultNumVoters(k) /\ UNCHANGED twin

Next ==
    \/ DoNew
    \/ DoZero
    \/ DoVote
    \/ DoWinner
    \/ DoNumVoters
    \/ DoResult
    \/ DoResultWinner
    \/ DoResultNumVoters

Spec == Init /\ [][Next]_vars

\* one program that, once it has its Election, casts ballots and asks for
\* the winner, and takes no Result
NextVotes ==
    \/ DoNew
    \/ DoZero
    \/ DoVote
    \/ DoWinner

SpecVotes == Init /\ [][NextVotes]_vars

\* two programs side by side: New(2) and a zero-value Election, every call
\* made on both
BothStart == CallNew(2) /\ twin' = StepZero(twin)
BothVote ==
    /\ CanVote
    /\ \E ballot \in BallotInputs(num(e)) :
           CallVote(ballot) /\ twin' = StepVote(twin, ballot)
BothWinner == CallWinner /\ twin' = StepWinner(twin)
BothNumVoters == CallNumVoters /\ twin' = StepNumVoters(twin)
BothResult == CallResult /\ twin' = StepResult(twin)
BothResultWinner == \E k \in 1..Len(results) :
                        CallResultWinner(k) /\ twin' = StepResultWinner(twin, k)
BothResultNumVoters == \E k \in 1..Len(results) :
                           CallResultNumVoters(k) /\ twin' = StepResultNumVoters(twin, k)

NextBoth ==
    \/ BothStart
    \/ BothVote
    \/ BothWinner
    \/ BothNumVoters
    \/ BothResult
    \/ BothResultWinner
    \/ BothResultNumVoters

SpecZero == Init /\ [][NextBoth]_vars

\* ------------------------------------------------------------- properties
\* the candidates of the live Election
Cands == 0..(num(e) - 1)

\* tally[i][j] of an n-candidate matrix stored in arr, row i, column j;
\* a matrix not allocated yet counts nothing
TallyIn(arr, n, i, j) == IF arr = <<>> THEN 0 ELSE arr[n * i + j + 1]

\* tally[i][j] of the live Election
Tally(i, j) == TallyIn(LiveArray(e, mem), num(e), i, j)

\* tally[i][j] of a Result
ResultTally(r, i, j) == TallyIn(LiveArray(r.e, mem), num(r.e), i, j)

\* w is a Condorcet winner of the live Election
IsCondorcetWinner(w) == \A i \in Cands \ {w} : Tally(w, i) > Tally(i, w)

\* w is a Condorcet winner of the Result r
IsResultCondorcetWinner(r, w) ==
    \A i \in (0..(num(r.e) - 1)) \ {w} : ResultTally(r, w, i) > ResultTally(r, i, w)

\* the ballot ranks i before j
Prefers(ballot, i, j) ==
    \E k, l \in 1..Len(ballot) : k < l /\ ballot[k] = i /\ ballot[l] = j

\* the number of ballots of the bag that rank i before j
PrefCount(bag, i, j) ==
    BagCardinality([b \in {x \in BagToSet(bag) : Prefers(x, i, j)} |-> CopiesIn(b, bag)])

\* the election has been constructed and the program has not failed to build it
Built == pc \in {"live", "panicked"}

\* C1: whenever the live Election's Winner() is called, it returns (w, true)
\* exactly when w is a Condorcet winner, and found = false when there is none.
C1_WinnerIsCondorcetWinner ==
    (Built /\ last.op = "Winner") =>
        /\ ~last.fault
        /\ last.exist => IsCondorcetWinner(last.w)
        /\ ~last.exist => ~(\E w \in Cands : IsCondorcetWinner(w))

\* What does hold of Election.Winner: when the call returns at all, its answer
\* is the Condorcet winner or none; and Result.Winner always returns and is right.
WinnerRightWhenItReturns ==
    /\ (Built /\ last.op = "Winner" /\ ~last.fault) =>
        /\ last.exist => IsCondorcetWinner(last.w)
        /\ ~last.exist => ~(\E w \in Cands : IsCondorcetWinner(w))
    /\ (Built /\ last.op = "Result.Winner") =>
        /\ ~last.fault
        /\ last.exist => IsResultCondorcetWinner(results[last.k], last.w)
        /\ ~last.exist =>
             ~(\E w \in Cands : IsResultCondorcetWinner(results[last.k], w))

\* C2: a Vote with a malformed ballot (wrong length, an entry out of range, a
\* candidate duplicated or missing) returns false and leaves the Election, its
\* matrix and the voter count as they were.
C2_MalformedBallotRejected ==
    (last.op = "Vote" /\ call.kind \in {"length", "range", "duplicate"}) =>
        /\ last.ret = FALSE
        /\ e = call.e
        /\ LiveArray(e, mem) = call.arr
        /\ voters = call.voters

\* C2's case: a ballot naming a candidate twice, given after a ballot was counted
C2_Witness ==
    /\ last.op = "Vote"
    /\ call.kind = "duplicate"
    /\ ~last.ret
    /\ accepted > 0

\* C3: a Vote with a permutation of 0..n-1 returns true, adds exactly 1 to
\* tally[ballot[i]][ballot[j]] for every pair of positions i < j, and leaves
\* every other entry (the reverse entries, the diagonal) as it was.
C3_ValidBallotTallied ==
    (last.op = "Vote" /\ call.kind = "permutation") =>
        /\ last.ret = TRUE
        /\ Len(LiveArray(e, mem)) = num(e) * num(e)
        /\ \A i, j \in Cands :
             Tally(i, j) = TallyIn(call.arr, num(e), i, j)
                           + (IF Prefers(call.ballot, i, j) THEN 1 ELSE 0)

\* C3's case: a second ballot counted by a three-candidate election
C3_Witness ==
    /\ last.op = "Vote"
    /\ call.kind = "permutation"
    /\ last.ret
    /\ num(e) = 3
    /\ accepted = 2

\* C4: a Result keeps answering Winner() and NumVoters() as it did when it was
\* taken, whatever is voted afterwards, and its matrix is not the live one's.
C4_ResultUnaffectedByVotes ==
    \A k \in 1..Len(results) :
        /\ ResultWinner(results[k], mem) = taken[k].winner
        /\ ResultNumVoters(results[k]) = taken[k].count
        /\ results[k].e.m # e.m

\* C4's case: ballots counted after a Result was taken changed the live outcome
C4_Witness ==
    \E k \in 1..Len(results) :
        /\ accepted > taken[k].count
        /\ ~Winner(e, mem).fault
        /\ Winner(e, mem).exist # taken[k].winner.exist

C6_NoBallotNoWinner ==
    (Built /\ last.op \in {"Winner", "Result.Winner"}) =>
        /\ ~last.fault
        /\ accepted = 0 => ~last.exist

\* C7: a zero-value Election and New(2), given the same calls, return the same
\* values and hold the same tally; Vote accepts exactly <<0,1>> and <<1,0>>.
Observed(p) ==
    [n       |-> num(p.e),
     tally   |-> [i \in 0..1, j \in 0..1 |->
                    TallyIn(LiveArray(p.e, p.mem), num(p.e), i, j)],
     voters  |-> NumVoters(p.voters),
     pc      |-> p.pc,
     ret     |-> [p.last EXCEPT !.op = "call"],
     results |-> [k \in 1..Len(p.results) |->
                    [winner |-> ResultWinner(p.results[k], p.mem),
                     voters |-> ResultNumVoters(p.results[k])]]]

C7_ZeroValueIsNewTwo ==
    (pc # "start") =>
        /\ Observed(twin) = Observed(Prog)
        /\ twin.last.op = "Vote" =>
             (twin.last.ret <=> call.ballot \in {<<0, 1>>, <<1, 0>>})

\* C7's case: both have counted ballots, handed out a Result and found a winner
C7_Witness ==
    /\ twin.last.op = "Winner"
    /\ twin.last.exist
    /\ last.exist
    /\ Len(twin.results) = 1
    /\ twin.voters = 2

\* C8: New(n) yields an Election of exactly n candidates when n >= 2, and an
\* error and no Election when n < 2.
C8_NewChecksCandidateCount ==
    (origin = "New") =>
        IF arg >= 2
        THEN ~err /\ ~e.nil /\ num(e) = arg /\ pc # "failed"
        ELSE err /\ e.nil /\ pc = "failed"

\* C8's case: New(3) gave an election that counts three-entry ballots
C8_Witness ==
    /\ origin = "New"
    /\ arg = 3
    /\ ~err
    /\ accepted > 0

\* C9: for every two distinct candidates i and j, tally[i][j] + tally[j][i] is the
\* number of ballots accepted so far.
C9_PairSumsToAccepted ==
    Built => \A i, j \in Cands : i # j => Tally(i, j) + Tally(j, i) = accepted

\* C9's case: two ballots that disagree on a pair of three candidates
C9_Witness ==
    /\ num(e) = 3
    /\ accepted = 2
    /\ \E i, j \in Cands : i # j /\ Tally(i, j) = 1 /\ Tally(j, i) = 1

\* the state a Vote was called in, rebuilt from its record
CallHeap == IF call.arr = <<>> THEN <<>> ELSE <<call.arr>>
CallElection == [call.e EXCEPT !.m = IF call.arr = <<>> THEN NilSlice ELSE 1]

\* the matrix and the winner after voting a then b from (el, heap)
AfterTwo(el, heap, a, b) ==
    LET s == Vote(el, heap, a)
        t == Vote(s.e, s.mem, b)
    IN  [ret |-> <<s.ret, t.ret>>, arr |-> LiveArray(t.e, t.mem),
         winner |-> Winner(t.e, t.mem)]

\* C10: the tally depends only on the bag of accepted ballots (each entry is the
\* number of them ranking i before j); and from the state any accepted Vote(a)
\* was called in, voting a then b gives the same matrix and the same Winner()
\* as voting b then a, for every total order b.
C10_OrderOfBallotsIrrelevant ==
    Built =>
        /\ \A i, j \in Cands : Tally(i, j) = PrefCount(cast, i, j)
        /\ (last.op = "Vote" /\ last.ret) =>
             \A b \in TotalOrders(num(e)) :
                 /\ AfterTwo(CallElection, CallHeap, call.ballot, b)
                    = AfterTwo(CallElection, CallHeap, b, call.ballot)
                 /\ AfterTwo(CallElection, CallHeap, call.ballot, b).ret = <<TRUE, TRUE>>

\* C10's case: two different ballots have been counted, the last one just now
C10_Witness ==
    /\ last.op = "Vote"
    /\ last.ret
    /\ accepted = 2
    /\ Cardinality(BagToSet(cast)) = 2

====
